---- MODULE Spec2Model ----
(***************************************************************************)
(* N-dimensional minesweeper engine of src/lab.py: new_game_nd builds the  *)
(* game dictionary, dig_nd rescans the two counters and runs the recursive *)
(* reveal _dig_nd.  Nested Python lists are nested sequences; a Python     *)
(* index j is the sequence index j + 1.  Coordinates are tuples of         *)
(* 0-based components.  The recursion of _dig_nd is an explicit stack of   *)
(* frames, one step per neighbour visited, the neighbour chosen freely     *)
(* because the iteration order of a Python set is not fixed by the code.   *)
(***************************************************************************)
EXTENDS Integers, Sequences, FiniteSets, TLC

\* game: the game dictionary; stack: the running calls of _dig_nd, outermost
\* first; mines: the mine list new_game_nd was given; pre, arg: the game and
\* the coordinates at the last call of dig_nd; ret: what that call returned
VARIABLES game, stack, mines, pre, arg, ret

vars == <<game, stack, mines, pre, arg, ret>>

\* ---------------------------------------------------------------- bounds
\* longest dimension vector
MaxRank == 2
\* largest extent of one axis
MaxExtent == 3
\* largest number of cells of a board
MaxCells == 6
\* longest mine list handed to new_game_nd
MaxMines == 2
\* longest coordinate handed to get_neighbors on its own
MaxNeighborRank == 3

\* ------------------------------------------------------------- constants
\* the mine marker "." of the board (an integer no count can take)
Mine == -1

\* the value of ret while no top-level dig has returned yet
NoRet == -1

\* ------------------------------------------------- N-dimensional accessor
RECURSIVE get_value(_, _)
get_value(coordinate, iterable) ==
    IF Len(coordinate) = 1
    THEN iterable[coordinate[1] + 1]
    ELSE get_value(Tail(coordinate), iterable[coordinate[1] + 1])

RECURSIVE set_value(_, _, _)
set_value(coordinate, iterable, value) ==
    IF Len(coordinate) = 1
    THEN [iterable EXCEPT ![coordinate[1] + 1] = value]
    ELSE [iterable EXCEPT ![coordinate[1] + 1] =
              set_value(Tail(coordinate), iterable[coordinate[1] + 1], value)]

\* ------------------------------------------------------ coordinate algebra
\* coord[:i] + (v,) + coord[i + 1:], with i the 1-based axis
Replace(coord, i, v) == [coord EXCEPT ![i] = v]

\* faulty variant of ToAdd: 0 < minus for 0 <= minus (C8 fails on it)
ToAddOffByOne(to_visit, dimensions) ==
    { Replace(coord, i, coord[i] - 1) :
        <<i, coord>> \in { p \in (1..Len(dimensions)) \X to_visit :
                             /\ 0 < p[2][p[1]] - 1
                             /\ p[2][p[1]] - 1 < dimensions[p[1]] } }

\* one pass of the while loop of get_all_coordinates: the coordinates one
\* step below to_visit along some axis
ToAdd(to_visit, dimensions) ==
    { Replace(coord, i, coord[i] - 1) :
        <<i, coord>> \in { p \in (1..Len(dimensions)) \X to_visit :
                             /\ 0 <= p[2][p[1]] - 1
                             /\ p[2][p[1]] - 1 < dimensions[p[1]] } }

RECURSIVE AllCoordinatesLoop(_, _, _)
AllCoordinatesLoop(coordinates, to_visit, dimensions) ==
    IF to_visit = {}
    THEN coordinates
    ELSE AllCoordinatesLoop(coordinates \cup to_visit,
                            ToAdd(to_visit, dimensions), dimensions)

get_all_coordinates(dimensions) ==
    LET dim_bound == [i \in 1..Len(dimensions) |-> dimensions[i] - 1]
    IN  AllCoordinatesLoop({dim_bound}, {dim_bound}, dimensions)

\* faulty variant of AxisSteps: the plus step is missing (C10 fails on it)
AxisStepsMinusOnly(to_visit, i, dimensions) ==
    { Replace(coord, i, coord[i] - 1) :
        coord \in { c \in to_visit : c[i] - 1 \in 0..(dimensions[i] - 1) } }

\* the coordinates one loop body of get_neighbors adds for axis i
AxisSteps(to_visit, i, dimensions) ==
    { Replace(coord, i, coord[i] - 1) :
        coord \in { c \in to_visit : c[i] - 1 \in 0..(dimensions[i] - 1) } }
    \cup
    { Replace(coord, i, coord[i] + 1) :
        coord \in { c \in to_visit : c[i] + 1 \in 0..(dimensions[i] - 1) } }

RECURSIVE NeighborsLoop(_, _, _, _)
NeighborsLoop(to_visit, neighbors, i, dimensions) ==
    IF i > Len(dimensions)
    THEN neighbors
    ELSE LET grown == neighbors \cup AxisSteps(to_visit, i, dimensions)
         IN  NeighborsLoop(to_visit \cup grown, grown, i + 1, dimensions)

get_neighbors(coordinate, dimensions) ==
    NeighborsLoop({coordinate}, {}, 1, dimensions)

\* ------------------------------------------------------------ board builder
RECURSIVE create_board(_)
create_board(dim) ==
    IF Len(dim) = 1
    THEN [j \in 1..dim[1] |-> 0]
    ELSE [j \in 1..dim[1] |-> create_board(Tail(dim))]

RECURSIVE create_visible(_)
create_visible(dim) ==
    IF Len(dim) = 1
    THEN [j \in 1..dim[1] |-> FALSE]
    ELSE [j \in 1..dim[1] |-> create_visible(Tail(dim))]

RECURSIVE assign_mine(_, _)
assign_mine(board, mine_loc) ==
    IF Len(mine_loc) = 1
    THEN [board EXCEPT ![mine_loc[1] + 1] = Mine]
    ELSE [board EXCEPT ![mine_loc[1] + 1] =
              assign_mine(board[mine_loc[1] + 1], Tail(mine_loc))]

\* for location in mines: assign_mine(board, location)
RECURSIVE StampMines(_, _)
StampMines(board, locations) ==
    IF locations = <<>>
    THEN board
    ELSE StampMines(assign_mine(board, Head(locations)), Tail(locations))

\* faulty variant of BumpValue: a mine is incremented too (C9 fails on it)
BumpValueUnguarded(board, coordinate) ==
    set_value(coordinate, board, get_value(coordinate, board) + 1)

\* the body of the inner loop of new_game_nd for one neighbour
BumpValue(board, coordinate) ==
    LET value == get_value(coordinate, board)
    IN  IF value # Mine
        THEN set_value(coordinate, board, value + 1)
        ELSE board

\* for coordinate in get_neighbors(location, dimensions): the coordinates of
\* the set are distinct and each body touches its own cell only, so one
\* order stands for all
RECURSIVE BumpNeighbors(_, _)
BumpNeighbors(board, todo) ==
    IF todo = {}
    THEN board
    ELSE LET coordinate == CHOOSE c \in todo : TRUE
         IN  BumpNeighbors(BumpValue(board, coordinate), todo \ {coordinate})

\* for location in mines: for coordinate in get_neighbors(...)
RECURSIVE CountAdjacent(_, _, _)
CountAdjacent(board, locations, dimensions) ==
    IF locations = <<>>
    THEN board
    ELSE CountAdjacent(
             BumpNeighbors(board, get_neighbors(Head(locations), dimensions)),
             Tail(locations), dimensions)

new_game_nd(dimensions, mine_list) ==
    [ dimensions  |-> dimensions,
      board       |-> CountAdjacent(
                          StampMines(create_board(dimensions), mine_list),
                          mine_list, dimensions),
      visible     |-> create_visible(dimensions),
      state       |-> "ongoing",
      mines       |-> Len(mine_list),
      not_visible |-> Cardinality(get_all_coordinates(dimensions)) ]

\* ---------------------------------------------------------------- dig engine
\* faulty variant of Rescan: not_visible is not reset to 0 before the count
\* (C6 fails on it)
RescanNoReset(g) ==
    LET all_coordinates == get_all_coordinates(g.dimensions)
    IN  [g EXCEPT
           !.mines = Cardinality({ coord \in all_coordinates :
                                     get_value(coord, g.board) = Mine }),
           !.not_visible = @ + Cardinality({ coord \in all_coordinates :
                                     get_value(coord, g.visible) = FALSE })]

\* faulty variant of Rescan: the mines are not recounted (C17 fails on it)
RescanKeepMines(g) ==
    LET all_coordinates == get_all_coordinates(g.dimensions)
    IN  [g EXCEPT
           !.not_visible = Cardinality({ coord \in all_coordinates :
                                     get_value(coord, g.visible) = FALSE })]

\* the rescan at the top of dig_nd: both counters recounted over every coordinate
Rescan(g) ==
    LET all_coordinates == get_all_coordinates(g.dimensions)
    IN  [g EXCEPT
           !.mines = Cardinality({ coord \in all_coordinates :
                                     get_value(coord, g.board) = Mine }),
           !.not_visible = Cardinality({ coord \in all_coordinates :
                                     get_value(coord, g.visible) = FALSE })]

\* faulty variant of Reveal: the counter is not decremented (C4 fails on it)
RevealNoCount(g, coordinates) ==
    [g EXCEPT !.visible = set_value(coordinates, @, TRUE)]

\* set_value(coordinates, game["visible"], True); game["not_visible"] -= 1
Reveal(g, coordinates) ==
    [g EXCEPT !.visible = set_value(coordinates, @, TRUE),
              !.not_visible = @ - 1]

\* faulty variant of Terminal: victory is not tested (C1 fails on it)
TerminalDefeatOnly(g) == g.state = "defeat"

\* faulty variant of Terminal: defeat is not tested (C3 fails on it)
TerminalVictoryOnly(g) == g.state = "victory"

\* the test that opens _dig_nd
Terminal(g) == g.state = "defeat" \/ g.state = "victory"

\* faulty variant of DigEntry: the test of line 450 is missing, a visible cell
\* is revealed and counted again (C11 and C15 fail on it)
DigEntryRedig(g, coordinates) ==
    IF Terminal(g)
    THEN [game |-> g, returned |-> TRUE, revealed |-> 0, todo |-> {}]
    ELSE IF get_value(coordinates, g.board) = Mine
    THEN [game |-> [Reveal(g, coordinates) EXCEPT !.state = "defeat"],
          returned |-> TRUE, revealed |-> 1, todo |-> {}]
    ELSE [game |-> Reveal(g, coordinates), returned |-> FALSE, revealed |-> 1,
          todo |-> IF get_value(coordinates, g.board) = 0
                   THEN get_neighbors(coordinates, g.dimensions)
                   ELSE {}]

\* _dig_nd from its entry to the neighbour loop: either the call returns at
\* once (returned, with its value in revealed) or it has revealed the cell
\* and goes on as a frame whose todo holds the neighbours still to iterate
DigEntry(g, coordinates) ==
    IF Terminal(g)
    THEN [game |-> g, returned |-> TRUE, revealed |-> 0, todo |-> {}]
    ELSE IF get_value(coordinates, g.board) = Mine
    THEN [game |-> [Reveal(g, coordinates) EXCEPT !.state = "defeat"],
          returned |-> TRUE, revealed |-> 1, todo |-> {}]
    ELSE IF get_value(coordinates, g.visible) = FALSE
    THEN [game |-> Reveal(g, coordinates), returned |-> FALSE, revealed |-> 1,
          todo |-> IF get_value(coordinates, g.board) = 0
                   THEN get_neighbors(coordinates, g.dimensions)
                   ELSE {}]
    ELSE [game |-> g, returned |-> TRUE, revealed |-> 0, todo |-> {}]

\* faulty variant of UpdateState: >= for > (C2 fails on it)
UpdateStateOffByOne(g) ==
    LET num_revealed_squares == g.not_visible - g.mines
    IN  [g EXCEPT !.state = IF num_revealed_squares >= 0 THEN "ongoing"
                            ELSE "victory"]

\* faulty variant of UpdateState: > 1 for > 0, victory one cell early (C14,
\* C19 and C20 fail on it)
UpdateStateEarly(g) ==
    LET num_revealed_squares == g.not_visible - g.mines
    IN  [g EXCEPT !.state = IF num_revealed_squares > 1 THEN "ongoing"
                            ELSE "victory"]

\* the status update that ends _dig_nd
UpdateState(g) ==
    LET num_revealed_squares == g.not_visible - g.mines
    IN  [g EXCEPT !.state = IF num_revealed_squares > 0 THEN "ongoing"
                            ELSE "victory"]

\* the locals of a running call of _dig_nd
Frame(coordinates, e) ==
    [coordinates |-> coordinates, revealed |-> e.revealed, todo |-> e.todo]

\* faulty variant of Accumulate: the callee's count is dropped (C5 fails on it)
AccumulateDropped(frame, count) == frame

\* revealed += _dig_nd(neighbor), in the frame of the caller
Accumulate(frame, count) == [frame EXCEPT !.revealed = @ + count]

\* the innermost running call
Top == stack[Len(stack)]

\* its callers
Below == SubSeq(stack, 1, Len(stack) - 1)

\* the one element of a singleton
Only(S) == CHOOSE x \in S : TRUE

\* _dig_nd run to its end with the neighbours of every call iterated in one
\* fixed order: the game it leaves and the count it returns
RECURSIVE DigInOrder(_, _)
RECURSIVE LoopInOrder(_, _, _)
DigInOrder(g, coordinates) ==
    Only({ IF e.returned
           THEN [game |-> e.game, revealed |-> e.revealed]
           ELSE Only({ [game |-> UpdateState(r.game), revealed |-> r.revealed] :
                         r \in {LoopInOrder(e.game, e.todo, e.revealed)} }) :
           e \in {DigEntry(g, coordinates)} })

\* the neighbour loop of one call, from the neighbours left in todo
LoopInOrder(g, todo, revealed) ==
    IF todo = {}
    THEN [game |-> g, revealed |-> revealed]
    ELSE Only({ IF get_value(neighbor, g.visible) = FALSE
                THEN Only({ LoopInOrder(r.game, todo \ {neighbor},
                                        revealed + r.revealed) :
                              r \in {DigInOrder(g, neighbor)} })
                ELSE LoopInOrder(g, todo \ {neighbor}, revealed) :
                neighbor \in {CHOOSE n \in todo : TRUE} })

\* ------------------------------------------------------------------ inputs
\* the number of cells of a board of dimensions dim
RECURSIVE Product(_)
Product(dim) == IF dim = <<>> THEN 1 ELSE Head(dim) * Product(Tail(dim))

\* the dimension vectors new_game_nd is given
DimVectors ==
    { dim \in UNION { [1..k -> 1..MaxExtent] : k \in 1..MaxRank } :
        Product(dim) <= MaxCells }

\* the box [0, dim[1]) x ... x [0, dim[k])
RECURSIVE Box(_)
Box(dim) ==
    IF dim = <<>>
    THEN {<<>>}
    ELSE { <<h>> \o t : h \in 0..(Head(dim) - 1), t \in Box(Tail(dim)) }

\* the in-bounds mine lists new_game_nd is given, repeats included
MineLists(dim) == UNION { [1..n -> Box(dim)] : n \in 0..MaxMines }

\* ----------------------------------------------------------- specification
Init ==
    /\ \E dim \in DimVectors : \E mine_list \in MineLists(dim) :
         /\ mines = mine_list
         /\ game = new_game_nd(dim, mine_list)
    /\ stack = <<>>
    /\ pre = game
    /\ arg = <<>>
    /\ ret = NoRet

\* a top-level dig_nd(game, coordinates) at any in-bounds coordinates: the
\* rescan, then the call of _dig_nd
Dig ==
    /\ stack = <<>>
    /\ \E rescanned \in {Rescan(game)} :
         \E coordinates \in get_all_coordinates(game.dimensions) :
           \E e \in {DigEntry(rescanned, coordinates)} :
             /\ game' = e.game
             /\ stack' = IF e.returned THEN <<>> ELSE <<Frame(coordinates, e)>>
             /\ ret' = IF e.returned THEN e.revealed ELSE NoRet
             /\ arg' = coordinates
    /\ pre' = game
    /\ UNCHANGED mines

\* the neighbours of the innermost running call that the loop has not reached
\* yet and that pass the test of line 463
HiddenTodo == { n \in Top.todo : get_value(n, game.visible) = FALSE }

\* the neighbour loop of the innermost running call runs on to a neighbour
\* that is still hidden and calls _dig_nd on it.  The iterations that find a
\* visible neighbour do nothing (line 463) and no cell ever turns hidden
\* again, so they are passed over in the same step.
Visit(neighbor) ==
    /\ stack # <<>>
    /\ neighbor \in HiddenTodo
    /\ \E rest \in {[Top EXCEPT !.todo = HiddenTodo \ {neighbor}]} :
         \E e \in {DigEntry(game, neighbor)} :
           /\ game' = e.game
           /\ stack' =
                IF e.returned
                THEN Below \o <<Accumulate(rest, e.revealed)>>
                ELSE Below \o <<rest, Frame(neighbor, e)>>
    /\ UNCHANGED <<mines, pre, arg, ret>>

\* the innermost running call has no hidden neighbour left to iterate: the
\* loop ends, the call updates the status and returns its count to its caller
Return ==
    /\ stack # <<>>
    /\ HiddenTodo = {}
    /\ game' = UpdateState(game)
    /\ IF Len(stack) = 1
       THEN /\ stack' = <<>>
            /\ ret' = Top.revealed
       ELSE /\ stack' = SubSeq(stack, 1, Len(stack) - 2)
                          \o <<Accumulate(stack[Len(stack) - 1], Top.revealed)>>
            /\ ret' = ret
    /\ UNCHANGED <<mines, pre, arg>>

Next ==
    \/ Dig
    \/ /\ stack # <<>>
       /\ \E neighbor \in HiddenTodo : Visit(neighbor)
    \/ Return

Spec == Init /\ [][Next]_vars

\* the game of the 2-D doctests: new_game_2d(2, 4, [(0, 0), (1, 0), (1, 1)])
ScenarioDims == <<2, 4>>

ScenarioMines == << <<0, 0>>, <<1, 0>>, <<1, 1>> >>

InitScenario ==
    /\ mines = ScenarioMines
    /\ game = new_game_nd(ScenarioDims, ScenarioMines)
    /\ stack = <<>>
    /\ pre = game
    /\ arg = <<>>
    /\ ret = NoRet

\* that game, then any sequence of digs
SpecScenario == InitScenario /\ [][Next]_vars

\* get_neighbors on its own: any in-bounds coordinate of any box of rank up
\* to MaxNeighborRank, the result kept as the neighbour set of a frame
NeighborDims == UNION { [1..k -> 1..MaxExtent] : k \in 1..MaxNeighborRank }

InitNeighbors ==
    /\ \E dim \in NeighborDims : \E coordinate \in Box(dim) :
         /\ game = [dimensions |-> dim]
         /\ arg = coordinate
    /\ stack = <<>>
    /\ mines = <<>>
    /\ pre = game
    /\ ret = NoRet

Neighbors ==
    /\ stack = <<>>
    /\ stack' = <<[coordinates |-> arg, revealed |-> 0,
                   todo |-> get_neighbors(arg, game.dimensions)]>>
    /\ UNCHANGED <<game, mines, pre, arg, ret>>

SpecNeighbors == InitNeighbors /\ [][Neighbors]_vars

\* ------------------------------------------------- vocabulary of the claims
\* every cell of the board of the game
Cells == Box(game.dimensions)

\* the cells of g that are revealed
VisibleCells(g) == { c \in Cells : get_value(c, g.visible) }

\* the cells of g that hold the mine marker
MineCells(g) == { c \in Cells : get_value(c, g.board) = Mine }

\* the cells at Chebyshev distance 1 of c
ChebNeighbors(c) ==
    { n \in Cells : /\ n # c
                    /\ \A i \in 1..Len(c) : n[i] - c[i] \in {-1, 0, 1} }

\* no top-level dig is running
Idle == stack = <<>>

\* the game is as new_game_nd returned it
Fresh == stack = <<>> /\ ret = NoRet

\* a top-level dig_nd(pre, arg) has returned ret and no other has started
Dug == stack = <<>> /\ ret # NoRet

\* the game g is won or lost
Over(g) == g.state \in {"defeat", "victory"}

\* the mine list holds no coordinate twice
NoDup(list) ==
    \A i \in 1..Len(list) : \A j \in 1..Len(list) : list[i] = list[j] => i = j

\* the coordinates of the mine list
Range(list) == { list[i] : i \in 1..Len(list) }

\* ------------------------------------------------------------------ claims
\* C1: defeat and victory are absorbing: a dig_nd called while Status is
\* defeat or victory returns 0 and leaves the whole game (Status, Visibility,
\* Board and both counters) as it was.
C1_TerminalAbsorbing ==
    [][ (stack = <<>> /\ Over(game))
          => (game' = game /\ stack' = <<>> /\ ret' = 0) ]_vars

\* a dig was made on a hidden non-mine cell of a game that was won or lost
C1_Witness ==
    /\ Dug
    /\ Over(pre)
    /\ ~ get_value(arg, pre.visible)
    /\ get_value(arg, pre.board) # Mine
    /\ ret = 0

\* C2 as stated: between top-level digs, the freshly built state included,
\* of a game built from a duplicate-free mine list, Status is victory iff no
\* mine is revealed and hidden_count equals mine_count.
C2_VictoryIffAsStated ==
    (Idle /\ NoDup(mines)) =>
        ( game.state = "victory"
            <=> ( /\ VisibleCells(game) \cap MineCells(game) = {}
                  /\ game.not_visible = game.mines ) )

\* C2 amended: the same equivalence in every state in which a top-level dig
\* has returned, and in the freshly built state of a board that has at least
\* one cell without a mine.
C2_VictoryIff ==
    (Idle /\ NoDup(mines) /\ (Dug \/ MineCells(game) # Cells)) =>
        ( game.state = "victory"
            <=> ( /\ VisibleCells(game) \cap MineCells(game) = {}
                  /\ game.not_visible = game.mines ) )

\* a flood-fill dig has returned and won a game that has mines
C2_Witness ==
    /\ Dug
    /\ NoDup(mines)
    /\ game.state = "victory"
    /\ game.mines > 0
    /\ ret > 1

\* C3: between top-level digs Status is defeat iff a mine cell is revealed,
\* and a dig on a lost game leaves it lost.
C3_DefeatIff ==
    /\ Idle => ( game.state = "defeat"
                   <=> VisibleCells(game) \cap MineCells(game) # {} )
    /\ (Dug /\ pre.state = "defeat") => game.state = "defeat"

\* a dig was made on a lost game, which is still lost
C3_Witness ==
    /\ Dug
    /\ pre.state = "defeat"
    /\ game.state = "defeat"
    /\ VisibleCells(game) \cap MineCells(game) # {}

\* C4: digging a mine while Status is ongoing sets Status to defeat, reveals
\* that cell and no other, lowers hidden_count by 1 and returns 1.
C4_DigMine ==
    (Dug /\ pre.state = "ongoing" /\ get_value(arg, pre.board) = Mine) =>
        /\ game.state = "defeat"
        /\ ~ get_value(arg, pre.visible)
        /\ VisibleCells(game) = VisibleCells(pre) \cup {arg}
        /\ game.not_visible = pre.not_visible - 1
        /\ ret = 1

\* a mine was dug after some other cell had been revealed
C4_Witness ==
    /\ Dug
    /\ pre.state = "ongoing"
    /\ get_value(arg, pre.board) = Mine
    /\ VisibleCells(pre) # {}
    /\ game.state = "defeat"

\* C5: the integer a top-level dig returns is the number of cells that were
\* hidden before the call and are revealed after it.
C5_ReturnCount ==
    Dug => ret = Cardinality(VisibleCells(game) \ VisibleCells(pre))

\* a dig returned after revealing cells at two levels of the recursion at least
C5_Witness ==
    /\ Dug
    /\ ret >= 4
    /\ game.state = "ongoing"

\* C6: after build and after every top-level dig hidden_count is the number
\* of hidden cells; a dig never raises it, and lowers it by exactly the
\* number of cells the dig turned from hidden to revealed.
C6_HiddenCount ==
    /\ Idle => game.not_visible = Cardinality(Cells \ VisibleCells(game))
    /\ Dug => /\ game.not_visible <= pre.not_visible
              /\ pre.not_visible - game.not_visible
                   = Cardinality(VisibleCells(game) \ VisibleCells(pre))

\* a second dig has returned after revealing several cells
C6_Witness ==
    /\ Dug
    /\ VisibleCells(pre) # {}
    /\ pre.not_visible - game.not_visible >= 2

\* C7 as stated: for any in-bounds mine list, repeats included, mine_count is
\* the number of Board cells that hold the mine marker after build and after
\* each dig, and a dig leaves its value as it was.
C7_MineCountAsStated ==
    /\ Idle => game.mines = Cardinality(MineCells(game))
    /\ Dug => game.mines = pre.mines

\* C8: for a duplicate-free in-bounds mine list new_game_nd returns Status
\* ongoing, every cell hidden, hidden_count the product of the dimensions
\* and mine_count the number of mines.
C8_Build ==
    (Fresh /\ NoDup(mines)) =>
        /\ game.state = "ongoing"
        /\ VisibleCells(game) = {}
        /\ game.not_visible = Product(game.dimensions)
        /\ game.mines = Cardinality(Range(mines))

\* a game of two dimensions at least, two mines and more than four cells
C8_Witness ==
    /\ Fresh
    /\ NoDup(mines)
    /\ Len(mines) = 2
    /\ Len(game.dimensions) >= 2
    /\ game.not_visible > 4

\* C9: for a duplicate-free in-bounds mine list every mine coordinate of the
\* built Board holds the mine marker and every other cell holds the number
\* of its Chebyshev-distance-1 in-bounds neighbours that are mines.
C9_BoardValues ==
    (Fresh /\ NoDup(mines)) =>
        \A c \in Cells :
            get_value(c, game.board) =
                IF c \in Range(mines)
                THEN Mine
                ELSE Cardinality(ChebNeighbors(c) \cap Range(mines))

\* a built board with a cell that touches two mines, one of them diagonally
C9_Witness ==
    /\ Fresh
    /\ NoDup(mines)
    /\ \E c \in Cells :
         /\ get_value(c, game.board) = 2
         /\ \E m \in Range(mines) : \A i \in 1..Len(c) : m[i] # c[i]

\* the 0-valued cells joined to the cells of comp through 0-valued neighbours
RECURSIVE ZeroComponent(_)
ZeroComponent(comp) ==
    LET more == { n \in UNION { ChebNeighbors(c) : c \in comp } :
                    get_value(n, game.board) = 0 }
    IN  IF more \subseteq comp THEN comp ELSE ZeroComponent(comp \cup more)

\* a component of 0-valued cells together with the cells adjacent to it
WithRing(comp) == comp \cup UNION { ChebNeighbors(c) : c \in comp }

\* C10: digging a 0-valued cell while Status is ongoing leaves revealed its
\* connected component of 0-valued cells and every cell adjacent to the
\* component, changes no visibility outside that set and reveals no mine.
C10_FloodFill ==
    (Dug /\ pre.state = "ongoing" /\ get_value(arg, pre.board) = 0) =>
        LET region == WithRing(ZeroComponent({arg}))
        IN  /\ region \subseteq VisibleCells(game)
            /\ VisibleCells(pre) \subseteq VisibleCells(game)
            /\ VisibleCells(game) \ VisibleCells(pre) \subseteq region
            /\ (VisibleCells(game) \ VisibleCells(pre)) \cap MineCells(game) = {}

\* a hidden 0-valued cell was dug whose component has several cells and a
\* ring of numbered cells, on a board that keeps a cell outside the region
C10_Witness ==
    /\ Dug
    /\ pre.state = "ongoing"
    /\ get_value(arg, pre.board) = 0
    /\ ~ get_value(arg, pre.visible)
    /\ Cardinality(ZeroComponent({arg})) >= 2
    /\ WithRing(ZeroComponent({arg})) # ZeroComponent({arg})
    /\ WithRing(ZeroComponent({arg})) # Cells

\* C11: digging a cell that is revealed and holds no mine returns 0 and
\* leaves Status, Visibility and both counters as they were.
C11_Idempotent ==
    (Dug /\ get_value(arg, pre.visible) /\ get_value(arg, pre.board) # Mine) =>
        /\ ret = 0
        /\ game.state = pre.state
        /\ game.visible = pre.visible
        /\ game.mines = pre.mines
        /\ game.not_visible = pre.not_visible

\* a revealed 0-valued cell was dug again while the game was going on
C11_Witness ==
    /\ Dug
    /\ pre.state = "ongoing"
    /\ get_value(arg, pre.visible)
    /\ get_value(arg, pre.board) = 0
    /\ ret = 0

\* the board [[mine, 3, 1, 0], [mine, mine, 1, 0]]
ScenarioBoard == << <<Mine, 3, 1, 0>>, <<Mine, Mine, 1, 0>> >>

\* C12 as stated: the built board is [[mine,3,1,0],[mine,mine,1,0]]; digging
\* (0,3) in the built game reveals 4 cells and yields victory with Visibility
\* [[F,T,T,T],[F,F,T,T]]; digging (0,0) instead reveals 1 cell and yields
\* defeat.
C12_ScenarioAsStated ==
    /\ Fresh => game.board = ScenarioBoard
    /\ (Dug /\ VisibleCells(pre) = {} /\ arg = <<0, 3>>) =>
          /\ ret = 4
          /\ game.state = "victory"
          /\ game.visible = << <<FALSE, TRUE, TRUE, TRUE>>,
                               <<FALSE, FALSE, TRUE, TRUE>> >>
    /\ (Dug /\ VisibleCells(pre) = {} /\ arg = <<0, 0>>) =>
          /\ ret = 1
          /\ game.state = "defeat"

\* C12 amended: the built board is as stated; once (0,1) alone is revealed,
\* digging (0,3) reveals 4 cells and yields victory with Visibility
\* [[F,T,T,T],[F,F,T,T]], and digging (0,0) instead reveals 1 cell and yields
\* defeat; in the built game digging (0,3) reveals 4 cells and leaves Status
\* ongoing with Visibility [[F,F,T,T],[F,F,T,T]].
C12_Scenario ==
    /\ Fresh => game.board = ScenarioBoard
    /\ (Dug /\ VisibleCells(pre) = {<<0, 1>>} /\ arg = <<0, 3>>) =>
          /\ ret = 4
          /\ game.state = "victory"
          /\ game.visible = << <<FALSE, TRUE, TRUE, TRUE>>,
                               <<FALSE, FALSE, TRUE, TRUE>> >>
    /\ (Dug /\ VisibleCells(pre) \subseteq {<<0, 1>>} /\ arg = <<0, 0>>) =>
          /\ ret = 1
          /\ game.state = "defeat"
    /\ (Dug /\ VisibleCells(pre) = {} /\ arg = <<0, 3>>) =>
          /\ ret = 4
          /\ game.state = "ongoing"
          /\ game.visible = << <<FALSE, FALSE, TRUE, TRUE>>,
                               <<FALSE, FALSE, TRUE, TRUE>> >>

\* (0,3) was dug with (0,1) alone revealed, and the game is won
C12_Witness ==
    /\ Dug
    /\ VisibleCells(pre) = {<<0, 1>>}
    /\ arg = <<0, 3>>
    /\ game.state = "victory"

\* C13: get_neighbors(c, dims) is exactly the set of in-bounds coordinates
\* that differ from c by -1, 0 or +1 in each axis and are not c, so it never
\* holds c and has at most 3^k - 1 elements.
C13_Neighbors ==
    stack # <<>> =>
        /\ Top.todo = ChebNeighbors(Top.coordinates)
        /\ Top.coordinates \notin Top.todo
        /\ Cardinality(Top.todo) <= 3 ^ Len(Top.coordinates) - 1

\* the neighbours of the centre of a box of three dimensions: all 26 of them
C13_Witness ==
    /\ stack # <<>>
    /\ Len(Top.coordinates) = 3
    /\ Cardinality(Top.todo) = 26

\* C14: the order in which a dig visits the hidden neighbours of a 0-valued
\* cell does not matter: whatever order the calls took, the dig ends in the
\* Visibility, the Status and the counters, and returns the count, that the
\* dig run in one fixed order ends in and returns.
C14_OrderIndependent ==
    Dug => \E fixed \in {DigInOrder(Rescan(pre), arg)} :
               /\ game = fixed.game
               /\ ret = fixed.revealed

\* a dig has returned whose first call had two hidden neighbours at least to
\* choose from and whose recursion went on from one of them
C14_Witness ==
    /\ Dug
    /\ pre.state = "ongoing"
    /\ ~ get_value(arg, pre.visible)
    /\ get_value(arg, pre.board) = 0
    /\ Cardinality(ChebNeighbors(arg) \ VisibleCells(pre)) >= 2
    /\ Cardinality(ZeroComponent({arg})) >= 2

\* the neighbours the running calls have still to iterate, all calls together
RECURSIVE SumTodo(_)
SumTodo(frames) ==
    IF frames = <<>> THEN 0
    ELSE Cardinality(Head(frames).todo) + SumTodo(Tail(frames))

\* a natural number that every step of a running dig lowers: the hidden
\* cells weigh more than all that the calls can still iterate
Measure(g, frames) ==
    LET n == Cardinality(Cells)
    IN  Cardinality(Cells \ VisibleCells(g)) * (n * n + n + 1)
          + SumTodo(frames) + Len(frames)

\* C15: every top-level dig terminates: a call that does not return at once
\* reveals a cell that was hidden, no step reveals a revealed cell again, the
\* running calls are on distinct cells, so never more of them than cells,
\* and every step of a running dig lowers Measure.
C15_Terminates ==
    [][ /\ Len(stack') <= Cardinality(Cells)
        /\ \A i \in 1..Len(stack') : \A j \in 1..Len(stack') :
             stack'[i].coordinates = stack'[j].coordinates => i = j
        /\ Len(stack') > Len(stack) =>
             /\ ~ get_value(stack'[Len(stack')].coordinates, game.visible)
             /\ get_value(stack'[Len(stack')].coordinates, game'.visible)
        /\ game'.visible # game.visible =>
             \E c \in Cells \ VisibleCells(game) :
                 VisibleCells(game') = VisibleCells(game) \cup {c}
        /\ stack # <<>> => Measure(game', stack') < Measure(game, stack)
      ]_vars

\* the recursion is as deep as the board has cells, five cells or more
C15_Witness ==
    /\ Len(stack) = Cardinality(Cells)
    /\ Len(stack) >= 5

\* C16: for a game built from a mine list without repeats, the counters that
\* a dig is called with are the ones a recount over the whole board gives, so
\* the recount at the top of the dig changes nothing and an engine without it
\* returns the same values and leaves the same game after every dig.
C16_RescanRedundant ==
    (Idle /\ NoDup(mines)) =>
        \E recounted \in {Rescan(game)} :
            /\ recounted.mines = game.mines
            /\ recounted.not_visible = game.not_visible
            /\ recounted = game

\* a later dig on a board with mines has returned after revealing several cells
C16_Witness ==
    /\ Dug
    /\ NoDup(mines)
    /\ Len(mines) > 0
    /\ VisibleCells(pre) # {}
    /\ ret > 1

\* C17 as stated: when the mine list repeats a coordinate, mine_count is
\* larger than the number of mine cells in the built game and no sequence of
\* digs brings Status to victory.
C17_VictoryUnreachableAsStated ==
    ~ NoDup(mines) =>
        /\ Fresh => game.mines > Cardinality(MineCells(game))
        /\ game.state # "victory"

\* C17 amended: when the mine list repeats a coordinate, mine_count is the
\* length of the list, larger than the number of mine cells, in the built
\* game only; once a dig has returned it is the number of mine cells, and
\* Status is victory iff the hidden cells are the mine cells.
C17_Duplicates ==
    ~ NoDup(mines) =>
        /\ Fresh => /\ game.mines = Len(mines)
                    /\ game.mines > Cardinality(MineCells(game))
                    /\ game.state = "ongoing"
        /\ Dug => /\ game.mines = Cardinality(MineCells(game))
                  /\ ( game.state = "victory"
                         <=> Cells \ VisibleCells(game) = MineCells(game) )

\* a game built from a mine list with a repeat has been won
C17_Witness ==
    /\ Dug
    /\ ~ NoDup(mines)
    /\ game.state = "victory"
    /\ pre.state = "ongoing"

\* the list without its repeats, each coordinate kept where it first occurs
RECURSIVE Dedup(_)
Dedup(list) ==
    IF list = <<>> THEN <<>>
    ELSE LET front == Dedup(SubSeq(list, 1, Len(list) - 1))
             last == list[Len(list)]
         IN  IF last \in Range(front) THEN front ELSE Append(front, last)

\* C18 as stated: new_game_nd given a mine list with repeats builds the Board
\* and the Visibility that it builds from the list with the repeats removed.
C18_DuplicatesToleratedAsStated ==
    Fresh =>
        \E clean \in {new_game_nd(game.dimensions, Dedup(mines))} :
            /\ game.board = clean.board
            /\ game.visible = clean.visible

\* C19: between top-level digs every revealed cell of value 0 has all its
\* neighbours within the board revealed.
C19_ZeroCellsOpen ==
    Idle =>
        \A c \in VisibleCells(game) :
            get_value(c, game.board) = 0 =>
                ChebNeighbors(c) \subseteq VisibleCells(game)

\* a flood fill has returned on a board where cells are still hidden
C19_Witness ==
    /\ Dug
    /\ game.state = "ongoing"
    /\ ret > 1
    /\ \E c \in VisibleCells(game) :
           get_value(c, game.board) = 0 /\ ChebNeighbors(c) # {}
    /\ Cardinality(Cells \ VisibleCells(game)) > Cardinality(MineCells(game))

\* C20: while a dig is running Status is not defeat, and it is victory only
\* when every cell without a mine is revealed, so no call of the fan-out
\* ends the game while a cell the dig can reach is hidden.
C20_NoEarlyTerminal ==
    stack # <<>> =>
        /\ game.state # "defeat"
        /\ game.state = "victory" =>
               Cells \ MineCells(game) \subseteq VisibleCells(game)

\* an inner call has set victory while the calls around it are still running
C20_Witness ==
    /\ Len(stack) >= 2
    /\ game.state = "victory"

====
